---- MODULE Spec2Model ----
(***************************************************************************)
(* Model of workflow/stage2_kg_pretrain.py: the multi-worker training and  *)
(* validation loop train_and_validate(), the distributed evaluation pass   *)
(* test() with its padded sum-reduction aggregation, and the driver main().*)
(*                                                                         *)
(* Workers are numbered by rank 0 .. world_size-1.  Every blocking         *)
(* collective (all_reduce, synchronize, the gradient all-reduce of the     *)
(* data-parallel wrapper) is a rendezvous: it fires when every worker of   *)
(* the run stands at it, and a worker standing at it alone stays there.    *)
(***************************************************************************)
EXTENDS Integers, Sequences, FiniteSets, Bags, TLC

\* ------------------------------------------------------------------ bounds
MaxW == 2          \* workers of a run of main()
MaxN == 2          \* triplets of the graph
MaxEpoch == 2      \* cfg.train.num_epoch ranges over 0..MaxEpoch, NumBlocks and NumBlocks+1
MaxSeed == 3       \* cfg.seed ranges over 0..MaxSeed
AggMaxW == 2       \* workers of the aggregation-only specification
AggMaxLen == 2     \* longest local vector of the aggregation-only specification
TestMaxN == 4      \* triplets of the graph in the evaluation-only specification

\* ----------------------------------------------------------- program constants
NumBlocks == 10    \* math.ceil(cfg.train.num_epoch / 10)

\* ------------------------------------------------------------ arithmetic
Min(a, b) == IF a < b THEN a ELSE b

\* math.ceil(a / b) for a >= 0, b > 0
CeilDiv(a, b) == (a + b - 1) \div b

RECURSIVE GCD(_, _)
GCD(a, b) == IF b = 0 THEN a ELSE GCD(b, a % b)

\* Floating-point values are modelled as exact fractions [n, d] with d > 0,
\* plus the two special values the code can produce or start from.
NegInf == [n |-> -1, d |-> 0]      \* float("-inf")
NaN == [n |-> 0, d |-> 0]          \* 0/0, the mean of an empty tensor

Frac(n, d) ==
  IF d = 0 THEN NaN
  ELSE LET g == GCD(IF n < 0 THEN -n ELSE n, d) IN [n |-> n \div g, d |-> d \div g]

FracAdd(a, b) == Frac(a.n * b.d + b.n * a.d, a.d * b.d)

\* Python's a > b on floats: false whenever either side is NaN.
FloatGt(a, b) ==
  IF a = NaN \/ b = NaN THEN FALSE
  ELSE IF a = NegInf THEN FALSE
  ELSE IF b = NegInf THEN TRUE
  ELSE a.n * b.d > b.n * a.d

\* ------------------------------------------------------------- sequences
RECURSIVE SumSeq(_)
SumSeq(s) == IF s = <<>> THEN 0 ELSE Head(s) + SumSeq(Tail(s))

RECURSIVE Flatten(_)
Flatten(ss) == IF ss = <<>> THEN <<>> ELSE Head(ss) \o Flatten(Tail(ss))

\* all sequences over S of length 0..n
SeqsUpTo(S, n) == UNION {[1..k -> S] : k \in 0..n}

BagOfSeq(s) == LET vals == {s[k] : k \in DOMAIN s}
               IN [v \in vals |-> Cardinality({k \in DOMAIN s : s[k] = v})]

\* ------------------------------------------------------- text of metric names
\* A metric name is the sequence of its characters, so that the substring
\* test, split() and int() of the code act on what the name really holds.
Digits == <<"0", "1", "2", "3", "4", "5", "6", "7", "8", "9">>

DigitValue(c) == (CHOOSE k \in 1..10 : Digits[k] = c) - 1

IsDigit(c) == \E k \in 1..10 : Digits[k] = c

\* Python's `sub in s`
Contains(s, sub) ==
  \E k \in 0..(Len(s) - Len(sub)) : SubSeq(s, k + 1, k + Len(sub)) = sub

\* Python's s.startswith(p)
StartsWith(s, p) == Len(s) >= Len(p) /\ SubSeq(s, 1, Len(p)) = p

\* Python's s.split(c) for a one-character separator c
RECURSIVE Split(_, _)
Split(s, c) ==
  IF \A k \in 1..Len(s) : s[k] # c THEN <<s>>
  ELSE LET k == CHOOSE j \in 1..Len(s) : s[j] = c /\ \A h \in 1..(j - 1) : s[h] # c
       IN <<SubSeq(s, 1, k - 1)>> \o Split(SubSeq(s, k + 1, Len(s)), c)

\* Python's int(s) succeeds (on the unsigned decimal names used here)
IsInt(s) == Len(s) >= 1 /\ \A k \in 1..Len(s) : IsDigit(s[k])

RECURSIVE ParseInt(_)
ParseInt(s) ==
  IF s = <<>> THEN 0
  ELSE 10 * ParseInt(SubSeq(s, 1, Len(s) - 1)) + DigitValue(s[Len(s)])

Name_mr == <<"m", "r">>
Name_mrr == <<"m", "r", "r">>
Name_hits == <<"h", "i", "t", "s", "@">>
Name_tail == <<"t", "a", "i", "l">>
Name_dash_tail == <<"-">> \o Name_tail
Name_head == <<"h", "e", "a", "d">>

\* the metric names configurations are drawn from
M_mr == Name_mr
M_mrr == Name_mrr
M_hits1 == Name_hits \o <<"1">>
M_mrr_tail == Name_mrr \o Name_dash_tail
M_hits1_tail == M_hits1 \o Name_dash_tail
M_mrr_head == Name_mrr \o <<"-">> \o Name_head
M_mrr_tailx == M_mrr_tail \o <<"x">>
M_mrr_tail_tail == M_mrr_tail \o Name_dash_tail
M_hits1_3 == M_hits1 \o <<"_", "3">>
M_hits1_1 == M_hits1 \o <<"_", "1">>
M_hits2_1 == Name_hits \o <<"2", "_", "1">>
M_hits1_3_tail == M_hits1_3 \o Name_dash_tail

\* --------------------------------------------------------- the distributed sampler
\* torch_data.DistributedSampler(triplets, world_size, rank) with its defaults
\* (shuffle, no drop_last): the shuffled index list is padded cyclically to a
\* multiple of world_size and worker `rank` takes every world_size-th index.
\* The shuffle uses the same seed on every worker, so `perm` is shared.
NumSamples(n, W) == CeilDiv(n, W)

PaddedIndices(perm, n, W) ==
  [k \in 1..(NumSamples(n, W) * W) |-> perm[((k - 1) % n) + 1]]

Shard(perm, n, W, rank) ==
  [j \in 1..NumSamples(n, W) |-> PaddedIndices(perm, n, W)[rank + (j - 1) * W + 1]]

\* torch_data.DataLoader(triplets, batch_size, sampler=sampler): the shard in
\* consecutive batches of batch_size, the last one possibly shorter.
Batches(shard, B) ==
  [b \in 1..CeilDiv(Len(shard), B) |->
     SubSeq(shard, (b - 1) * B + 1, Min(b * B, Len(shard)))]

\* ------------------------------------------------------ the scoring collaborator
\* The filtered rank and the number of valid negatives of triplet t on one
\* corruption side, as the external model with parameter quality q yields them:
\* 1 <= rank <= 1 + negatives.  Training is deterministic given the seed of
\* line 287, so the quality after `ver` epochs is a function of seed and ver.
Qualities == 3

QualityOf(seed, ver) == ((seed % Qualities) + (seed \div Qualities) * ver) % Qualities

SideIdx(side) == IF side = "t" THEN 0 ELSE 1

NumNegOf(t, side) == 1 + t + SideIdx(side)

RankOf(q, t, side) == 1 + ((q + t + SideIdx(side)) % (NumNegOf(t, side) + 1))

\* lines 179-198: per batch, the tail ranks of the batch then its head ranks
BatchRanks(q, batch) ==
  [k \in 1..Len(batch) |-> RankOf(q, batch[k], "t")]
    \o [k \in 1..Len(batch) |-> RankOf(q, batch[k], "h")]

\* the head counts appended before the tail counts
BatchNegsHeadFirst(batch) ==
  [k \in 1..Len(batch) |-> NumNegOf(batch[k], "h")]
    \o [k \in 1..Len(batch) |-> NumNegOf(batch[k], "t")]

BatchNegs(batch) ==
  [k \in 1..Len(batch) |-> NumNegOf(batch[k], "t")]
    \o [k \in 1..Len(batch) |-> NumNegOf(batch[k], "h")]

BatchTailRanks(q, batch) == [k \in 1..Len(batch) |-> RankOf(q, batch[k], "t")]

BatchTailNegs(batch) == [k \in 1..Len(batch) |-> NumNegOf(batch[k], "t")]

\* lines 200-201, 206-207: torch.cat over the batches
LocalRanking(q, bs) == Flatten([b \in 1..Len(bs) |-> BatchRanks(q, bs[b])])

LocalNumNegative(bs) == Flatten([b \in 1..Len(bs) |-> BatchNegs(bs[b])])

LocalTailRanking(q, bs) == Flatten([b \in 1..Len(bs) |-> BatchTailRanks(q, bs[b])])

LocalNumTailNeg(bs) == Flatten([b \in 1..Len(bs) |-> BatchTailNegs(bs[b])])

\* ------------------------------------------------------- the aggregation of test()
\* lines 202-203, 208-209: a zero vector of world_size entries with the local
\* length at the worker's own rank (ranks count from 0, sequences from 1)
SizeVector(W, rank, n) == [k \in 1..W |-> IF k = rank + 1 THEN n ELSE 0]

\* a prefix sum that leaves out the worker's own size
CumSumExclusive(v) == [k \in 1..Len(v) |-> SumSeq(SubSeq(v, 1, k - 1))]

\* lines 215, 222: all_size.cumsum(0)
CumSum(v) == [k \in 1..Len(v) |-> SumSeq(SubSeq(v, 1, k))]

\* the first index (from 0) of the worker's slice, lines 217-226
SliceStart(all_size, rank) == CumSum(all_size)[rank + 1] - all_size[rank + 1]

\* the local vector written at the start of the zero vector, whatever the rank
PaddedAtZero(all_size, rank, local) ==
  [k \in 1..SumSeq(all_size) |-> IF k <= Len(local) THEN local[k] ELSE 0]

\* lines 216-219, 223-228: torch.zeros(all_size.sum()) with the local vector
\* written at [cum_size[rank] - all_size[rank], cum_size[rank])
Padded(all_size, rank, local) ==
  [k \in 1..SumSeq(all_size) |->
     IF SliceStart(all_size, rank) < k /\ k <= CumSum(all_size)[rank + 1]
     THEN local[k - SliceStart(all_size, rank)]
     ELSE 0]

\* dist.all_reduce(x, op=SUM): every worker's x becomes the elementwise sum
ReduceSum(vs, W) ==
  [k \in 1..Len(vs[0]) |-> SumSeq([r \in 1..W |-> vs[r - 1][k]])]

\* ------------------------------------------------------------ the metric engine
\* lines 249-250: _ranking.float().mean()
MeanRank(r) == Frac(SumSeq(r), Len(r))

RECURSIVE SumRecip(_)
SumRecip(r) == IF r = <<>> THEN Frac(0, 1) ELSE FracAdd(Frac(1, Head(r)), SumRecip(Tail(r)))

\* lines 251-252 and 278: (1 / _ranking.float()).mean()
MeanRecip(r) ==
  IF Len(r) = 0 \/ SumRecip(r) = NaN THEN NaN
  ELSE Frac(SumRecip(r).n, SumRecip(r).d * Len(r))

\* line 275: (_ranking <= threshold).float().mean()
HitsAt(r, threshold) ==
  Frac(Cardinality({k \in 1..Len(r) : r[k] <= threshold}), Len(r))

RECURSIVE Factorial(_)
Factorial(n) == IF n <= 0 THEN 1 ELSE n * Factorial(n - 1)

RECURSIVE IntPow(_, _)
IntPow(b, e) == IF e <= 0 THEN 1 ELSE b * IntPow(b, e - 1)

\* lines 263-267: factorial(num_sample-1) / factorial(i) / factorial(num_sample-i-1)
NumComb(num_sample, i) ==
  Factorial(num_sample - 1) \div (Factorial(i) * Factorial(num_sample - i - 1))

\* lines 259-272 for one query: fp_rate = (rank-1)/num_neg, and the sum over
\* i < threshold of num_comb * fp_rate^i * (1-fp_rate)^(num_sample-i-1), as a
\* fraction over num_neg^(num_sample-1)
RECURSIVE EstimateNum(_, _, _, _)
EstimateNum(rk, neg, num_sample, i) ==
  IF i < 0 THEN 0
  ELSE NumComb(num_sample, i) * IntPow(rk - 1, i) * IntPow(neg - rk + 1, num_sample - i - 1)
         + EstimateNum(rk, neg, num_sample, i - 1)

RECURSIVE SumEstimates(_, _, _, _)
SumEstimates(r, negs, threshold, num_sample) ==
  IF r = <<>> THEN Frac(0, 1)
  ELSE FracAdd(Frac(EstimateNum(Head(r), Head(negs), num_sample, threshold - 1),
                    IF Head(negs) = 0 THEN 0 ELSE IntPow(Head(negs), num_sample - 1)),
               SumEstimates(Tail(r), Tail(negs), threshold, num_sample))

\* line 273: score.mean()
UnbiasedHits(r, negs, threshold, num_sample) ==
  IF Len(r) = 0 \/ SumEstimates(r, negs, threshold, num_sample) = NaN THEN NaN
  ELSE Frac(SumEstimates(r, negs, threshold, num_sample).n,
            SumEstimates(r, negs, threshold, num_sample).d * Len(r))

Ok(v) == [err |-> "", score |-> v]
Raise(e) == [err |-> e, score |-> NaN]

\* lines 253-275: the hits@ branch; int() raises on a non-number, factorial
\* raises on a negative argument, and `score = 0` has no mean()
HitsScore(name, _ranking, _num_neg) ==
  LET values == Split(SubSeq(name, 6, Len(name)), "_") IN
  IF ~IsInt(values[1]) THEN Raise("ValueError: invalid literal for int()")
  ELSE IF Len(values) = 1 THEN Ok(HitsAt(_ranking, ParseInt(values[1])))
  ELSE IF ~IsInt(values[2]) THEN Raise("ValueError: invalid literal for int()")
  ELSE IF ParseInt(values[1]) = 0 THEN Raise("AttributeError: 'int' object has no attribute 'mean'")
  ELSE IF ParseInt(values[2]) < ParseInt(values[1])
    THEN Raise("ValueError: factorial() not defined for negative values")
  ELSE Ok(UnbiasedHits(_ranking, _num_neg, ParseInt(values[1]), ParseInt(values[2])))

\* lines 249-276: the score of _metric_name; a name no branch matches leaves
\* `score` as the previous iteration left it (prev = <<>>: never assigned)
ScoreOf(_metric_name, _ranking, _num_neg, prev) ==
  IF _metric_name = Name_mr THEN Ok(MeanRank(_ranking))
  ELSE IF _metric_name = Name_mrr THEN Ok(MeanRecip(_ranking))
  ELSE IF StartsWith(_metric_name, Name_hits) THEN HitsScore(_metric_name, _ranking, _num_neg)
  ELSE IF prev = <<>> THEN Raise("UnboundLocalError: score")
  ELSE Ok(prev[1])

\* line 238: "-tail" in metric
IsTailMetric(metric) == Contains(metric, Name_dash_tail)

\* lines 238-277: one iteration of the metric loop on rank 0, for the test()
\* locals t
MetricEval(metric, t) ==
  IF IsTailMetric(metric)
  THEN IF Len(Split(metric, "-")) # 2
         THEN Raise("ValueError: too many values to unpack")
       ELSE IF Split(metric, "-")[2] # Name_tail
         THEN Raise("ValueError: Only tail metric is supported in this mode")
       ELSE ScoreOf(Split(metric, "-")[1], t.all_ranking_t, t.all_num_negative_t, t.score)
  ELSE ScoreOf(metric, t.all_ranking, t.all_num_negative, t.score)

\* -------------------------------------------------------------------- state
VARIABLES
  env,      \* [world_size, n, perm]: the workers, the triplets, the sampler's shuffle
  cfg,      \* [num_epoch, batch_size, metric, seed]: cfg.train.*, cfg.task.metric, cfg.seed
  pc,       \* per worker: where it stands
  tv,       \* per worker: the locals of train_and_validate
  tst,      \* per worker: the locals of the running test() call
  params,   \* per worker: the model parameters [ver, q]
  files,    \* output_dir: end epoch -> [complete, model] of model_epoch_<e>.pth
  err,      \* per worker: the exception that ended it ("" for none)
  hist      \* per worker: what it did so far, in order

vars == <<env, cfg, pc, tv, tst, params, files, err, hist>>

Ranks == 0..(env.world_size - 1)

\* an entry of hist: what was done, to which epoch or at which source line,
\* and for an evaluation result its value
EvVal(op, arg, val) == [op |-> op, arg |-> arg, val |-> val]

Ev(op, arg) == EvVal(op, arg, NaN)

\* line 69
StepSize(num_epoch) == CeilDiv(num_epoch, NumBlocks)

\* the block end without the clamp to num_epoch
BlockEndUnclamped(num_epoch, i, step) == i + step

\* lines 76 and 128: min(cfg.train.num_epoch, i + step)
BlockEnd(num_epoch, i, step) == Min(num_epoch, i + step)

\* lines 69-73
Tv0 ==
  [i |-> 0, epoch |-> 0, step |-> StepSize(cfg.num_epoch),
   best_result |-> NegInf, best_epoch |-> -1, result |-> NaN]

\* lines 153-178 and 235: the locals of a fresh test() call returning to `ret`;
\* both callers leave return_metrics at its default.  `out` holds the returned
\* value once the call has returned.
Tst0(ret) ==
  [ret |-> ret, return_metrics |-> FALSE, out |-> <<>>,
   ranking |-> <<>>, num_negative |-> <<>>,
   tail_ranking |-> <<>>, num_tail_neg |-> <<>>,
   all_size |-> <<>>, all_size_t |-> <<>>,
   all_ranking |-> <<>>, all_num_negative |-> <<>>,
   all_ranking_t |-> <<>>, all_num_negative_t |-> <<>>,
   metrics |-> <<>>, score |-> <<>>, m |-> 1, mrr |-> NaN]

\* few epochs (one block per epoch), ten (ten blocks) and eleven (blocks of
\* two epochs, the last block short)
EpochChoices == (0..MaxEpoch) \cup {NumBlocks, NumBlocks + 1}

BatchSizes == {1, 2}

\* the metric lists of the runs of main(): a valid one and two with a name
\* the metric loop rejects
MetricLists ==
  {<<M_mrr, M_hits1_tail>>, <<M_mrr_head>>, <<M_mrr_tailx>>}

Identity(n) == [k \in 1..n |-> k]

Reversed(n) == [k \in 1..n |-> n + 1 - k]

\* the shuffles of the sampler that configurations are drawn from
Shuffles(n) == {Identity(n), Reversed(n)}

Envs ==
  {[world_size |-> W, n |-> Len(p), perm |-> p] :
     W \in 1..MaxW, p \in UNION {Shuffles(k) : k \in 0..MaxN}}

InitWorkers ==
  /\ pc = [w \in Ranks |-> "tv_entry"]
  /\ tv = [w \in Ranks |-> Tv0]
  /\ tst = [w \in Ranks |-> Tst0("none")]
  /\ params = [w \in Ranks |-> [ver |-> 0, q |-> QualityOf(cfg.seed, 0)]]
  /\ files = <<>>
  /\ err = [w \in Ranks |-> ""]
  /\ hist = [w \in Ranks |-> <<>>]

Init ==
  /\ env \in Envs
  /\ cfg \in [num_epoch : EpochChoices, batch_size : BatchSizes, metric : MetricLists,
              seed : 0..MaxSeed]
  \* a batch size above the shard length yields the same single batch
  /\ cfg.batch_size <= (IF env.n = 0 THEN 1 ELSE NumSamples(env.n, env.world_size))
  /\ InitWorkers

\* ------------------------------------------------------------- collectives
\* dist.all_reduce blocks until every worker of the group has entered it
CollectiveReady(label) == \A w \in Ranks : pc[w] = label

\* utils.synchronize(): a barrier over all workers
SynchronizeReady(label) == \A w \in Ranks : pc[w] = label

Log(w, e) == Append(hist[w], e)

\* ----------------------------------------------------- train_and_validate
\* the loop is entered whatever the number of epochs
NeverReturnsAtOnce(num_epoch) == FALSE

\* line 39
ReturnsAtOnce(num_epoch) == num_epoch = 0

\* lines 39-74
TvEnter(w) ==
  /\ pc[w] = "tv_entry"
  /\ pc' = [pc EXCEPT ![w] =
              IF ReturnsAtOnce(cfg.num_epoch) THEN "tv_returned" ELSE "tv_train"]
  /\ tv' = [tv EXCEPT ![w] = Tv0]
  /\ UNCHANGED <<env, cfg, tst, params, files, err, hist>>

\* lines 75-127: one epoch of the block; the data-parallel wrapper reduces the
\* gradients across all workers in every backward pass, so the workers train
\* an epoch together and end it with the same parameters
TrainEpoch ==
  /\ env.n > 0
  /\ CollectiveReady("tv_train")
  /\ params' = [w \in Ranks |->
                  [ver |-> params[w].ver + 1,
                   q |-> QualityOf(cfg.seed, params[w].ver + 1)]]
  /\ tv' = [w \in Ranks |-> [tv[w] EXCEPT !.epoch = @ + 1]]
  /\ pc' = [w \in Ranks |->
              IF tv[w].epoch + 1 < BlockEnd(cfg.num_epoch, tv[w].i, tv[w].step)
              THEN "tv_train" ELSE "tv_save"]
  /\ hist' = [w \in Ranks |-> Log(w, Ev("train", tv[w].epoch))]
  /\ UNCHANGED <<env, cfg, tst, files, err>>

\* lines 76-127 on a graph without triplets: the loader yields no batch, so
\* no backward pass joins the workers; rank 0 then divides by len(losses) = 0
\* at line 122, the other ranks end the epoch with the parameters unchanged
TrainEpochEmpty(w) ==
  /\ env.n = 0
  /\ pc[w] = "tv_train"
  /\ IF w = 0
     THEN /\ pc' = [pc EXCEPT ![w] = "raised"]
          /\ err' = [err EXCEPT ![w] = "ZeroDivisionError: division by zero"]
          /\ UNCHANGED <<tv, hist>>
     ELSE /\ tv' = [tv EXCEPT ![w].epoch = @ + 1]
          /\ pc' = [pc EXCEPT ![w] =
                      IF tv[w].epoch + 1 < BlockEnd(cfg.num_epoch, tv[w].i, tv[w].step)
                      THEN "tv_train" ELSE "tv_save"]
          /\ hist' = [hist EXCEPT ![w] = Log(w, Ev("train", tv[w].epoch))]
          /\ UNCHANGED err
  /\ UNCHANGED <<env, cfg, tst, params, files>>

\* every rank saves
EveryRankSaves(w) == TRUE

\* line 129
IsSaver(w) == w = 0

\* lines 128-132, rank 0: torch.save begins writing model_epoch_<epoch>.pth
SaveBegin(w) ==
  /\ pc[w] = "tv_save"
  /\ IsSaver(w)
  /\ LET e == BlockEnd(cfg.num_epoch, tv[w].i, tv[w].step) IN
       /\ tv' = [tv EXCEPT ![w].epoch = e]
       /\ files' = [x \in DOMAIN files \cup {e} |->
                      IF x = e THEN [complete |-> FALSE, model |-> params[w]]
                      ELSE files[x]]
       /\ hist' = [hist EXCEPT ![w] = Log(w, Ev("save_begin", e))]
  /\ pc' = [pc EXCEPT ![w] = "tv_saving"]
  /\ UNCHANGED <<env, cfg, tst, params, err>>

\* line 132: torch.save returns, the file is complete
SaveEnd(w) ==
  /\ pc[w] = "tv_saving"
  /\ files' = [files EXCEPT ![tv[w].epoch].complete = TRUE]
  /\ hist' = [hist EXCEPT ![w] = Log(w, Ev("save", tv[w].epoch))]
  /\ pc' = [pc EXCEPT ![w] = "tv_sync"]
  /\ UNCHANGED <<env, cfg, tv, tst, params, err>>

\* the other ranks go on to the evaluation without the barrier of line 133
SaveSkipNoBarrier(w) ==
  /\ pc[w] = "tv_save"
  /\ ~IsSaver(w)
  /\ tv' = [tv EXCEPT ![w].epoch = BlockEnd(cfg.num_epoch, tv[w].i, tv[w].step)]
  /\ pc' = [pc EXCEPT ![w] = "t_rank"]
  /\ tst' = [tst EXCEPT ![w] = Tst0("loop")]
  /\ UNCHANGED <<env, cfg, params, files, err, hist>>

\* lines 128-129, other ranks
SaveSkip(w) ==
  /\ pc[w] = "tv_save"
  /\ ~IsSaver(w)
  /\ tv' = [tv EXCEPT ![w].epoch = BlockEnd(cfg.num_epoch, tv[w].i, tv[w].step)]
  /\ pc' = [pc EXCEPT ![w] = "tv_sync"]
  /\ UNCHANGED <<env, cfg, tst, params, files, err, hist>>

\* line 133, then line 138 enters test()
SyncAfterSave ==
  /\ SynchronizeReady("tv_sync")
  /\ pc' = [w \in Ranks |-> "t_rank"]
  /\ tst' = [w \in Ranks |-> Tst0("loop")]
  /\ hist' = [w \in Ranks |-> Log(w, Ev("synchronize", 133))]
  /\ UNCHANGED <<env, cfg, tv, params, files, err>>

\* the comparison with >= in place of >
ImprovesOrTies(result, best_result) ==
  FloatGt(result, best_result)
    \/ (result # NaN /\ best_result # NaN /\ ~FloatGt(best_result, result))

\* line 139
Improves(result, best_result) == FloatGt(result, best_result)

\* lines 139-141, then line 74 advances i by step
Update(w) ==
  /\ pc[w] = "tv_update"
  /\ LET better == Improves(tv[w].result, tv[w].best_result)
         i2 == tv[w].i + tv[w].step
     IN
       /\ tv' = [tv EXCEPT ![w] =
                   [@ EXCEPT !.best_result = IF better THEN tv[w].result ELSE @,
                             !.best_epoch = IF better THEN tv[w].epoch ELSE @,
                             !.i = i2,
                             !.epoch = IF i2 < cfg.num_epoch THEN i2 ELSE @]]
       /\ pc' = [pc EXCEPT ![w] = IF i2 < cfg.num_epoch THEN "tv_train" ELSE "tv_load"]
       /\ hist' = [hist EXCEPT ![w] = Log(w, EvVal("update", tv[w].epoch, tv[w].result))]
  /\ UNCHANGED <<env, cfg, tst, params, files, err>>

\* the checkpoint of the block trained last
CheckpointOfLastBlock(w) == tv[w].epoch

\* line 146: "model_epoch_%d.pth" % best_epoch
CheckpointToLoad(w) == tv[w].best_epoch

\* lines 143-148: torch.load of model_epoch_<best_epoch>.pth
Load(w) ==
  /\ pc[w] = "tv_load"
  /\ LET e == CheckpointToLoad(w) IN
       IF e \notin DOMAIN files
       THEN /\ pc' = [pc EXCEPT ![w] = "raised"]
            /\ err' = [err EXCEPT ![w] = "FileNotFoundError"]
            /\ UNCHANGED <<params, hist>>
       ELSE IF ~files[e].complete
       THEN /\ pc' = [pc EXCEPT ![w] = "raised"]
            /\ err' = [err EXCEPT ![w] = "RuntimeError: truncated checkpoint"]
            /\ hist' = [hist EXCEPT ![w] = Log(w, Ev("read_partial", e))]
            /\ UNCHANGED params
       ELSE /\ pc' = [pc EXCEPT ![w] = "tv_final_sync"]
            /\ params' = [params EXCEPT ![w] = files[e].model]
            /\ hist' = [hist EXCEPT ![w] = Log(w, Ev("load", e))]
            /\ UNCHANGED err
  /\ UNCHANGED <<env, cfg, tv, tst, files>>

\* line 149
SyncFinal ==
  /\ SynchronizeReady("tv_final_sync")
  /\ pc' = [w \in Ranks |-> "tv_returned"]
  /\ hist' = [w \in Ranks |-> Log(w, Ev("synchronize", 149))]
  /\ UNCHANGED <<env, cfg, tv, tst, params, files, err>>

\* lines 324-327 of main(): the evaluation after train_and_validate returned
MainTest(w) ==
  /\ pc[w] = "tv_returned"
  /\ pc' = [pc EXCEPT ![w] = "t_rank"]
  /\ tst' = [tst EXCEPT ![w] = Tst0("main")]
  /\ UNCHANGED <<env, cfg, tv, params, files, err, hist>>

\* ------------------------------------------------------------------ test()
\* lines 210 and 229
UsesCollectives(world_size) == world_size > 1

\* lines 164-210: the worker ranks its shard, batch by batch, and sets up
\* its size vectors
TestRank(w) ==
  /\ pc[w] = "t_rank"
  /\ LET bs == Batches(Shard(env.perm, env.n, env.world_size, w), cfg.batch_size)
         q == params[w].q
     IN IF bs = <<>>
        THEN \* line 200: torch.cat of an empty list
             /\ pc' = [pc EXCEPT ![w] = "raised"]
             /\ err' = [err EXCEPT ![w] =
                          "RuntimeError: torch.cat(): expected a non-empty list of Tensors"]
             /\ UNCHANGED <<tst, hist>>
        ELSE /\ tst' = [tst EXCEPT ![w] =
                  [@ EXCEPT !.ranking = LocalRanking(q, bs),
                            !.num_negative = LocalNumNegative(bs),
                            !.tail_ranking = LocalTailRanking(q, bs),
                            !.num_tail_neg = LocalNumTailNeg(bs),
                            !.all_size =
                               SizeVector(env.world_size, w, Len(LocalRanking(q, bs))),
                            !.all_size_t =
                               SizeVector(env.world_size, w, Len(LocalTailRanking(q, bs)))]]
             /\ pc' = [pc EXCEPT ![w] =
                         IF UsesCollectives(env.world_size) THEN "t_reduce_size" ELSE "t_pad"]
             /\ hist' = [hist EXCEPT ![w] =
                           Log(w, Ev("eval", IF tst[w].ret = "loop" THEN tv[w].epoch ELSE -1))]
             /\ UNCHANGED err
  /\ UNCHANGED <<env, cfg, tv, params, files>>

\* lines 202-210 on their own, for local vectors given from outside
TestSize(w) ==
  /\ pc[w] = "t_size"
  /\ tst' = [tst EXCEPT ![w] =
               [@ EXCEPT !.all_size = SizeVector(env.world_size, w, Len(tst[w].ranking)),
                         !.all_size_t = SizeVector(env.world_size, w, Len(tst[w].tail_ranking))]]
  /\ pc' = [pc EXCEPT ![w] =
              IF UsesCollectives(env.world_size) THEN "t_reduce_size" ELSE "t_pad"]
  /\ UNCHANGED <<env, cfg, tv, params, files, err, hist>>

\* every rank runs the metric loop
EveryRankComputes(w) == TRUE

\* line 236
ComputesMetrics(w) == w = 0

\* lines 235-237 and 278: where a worker goes after the aggregation
AfterAggregation(w) ==
  IF ComputesMetrics(w) /\ Len(cfg.metric) >= 1 THEN "t_metrics" ELSE "t_return"

\* one dist.all_reduce(<field>, op=SUM) call, at source line `line`; worker w
\* goes on to next[w]
AllReduce(field, label, next, line) ==
  /\ CollectiveReady(label)
  /\ tst' = [w \in Ranks |->
               [tst[w] EXCEPT ![field] =
                  ReduceSum([r \in Ranks |-> tst[r][field]], env.world_size)]]
  /\ pc' = next
  /\ hist' = [w \in Ranks |-> Log(w, Ev("all_reduce", line))]
  /\ UNCHANGED <<env, cfg, tv, params, files, err>>

\* line 211
AllReduceSize ==
  AllReduce("all_size", "t_reduce_size", [w \in Ranks |-> "t_reduce_size_t"], 211)

\* line 212
AllReduceSizeT ==
  AllReduce("all_size_t", "t_reduce_size_t", [w \in Ranks |-> "t_pad"], 212)

\* lines 215-229
TestPad(w) ==
  /\ pc[w] = "t_pad"
  /\ tst' = [tst EXCEPT ![w] =
               [@ EXCEPT !.all_ranking = Padded(tst[w].all_size, w, tst[w].ranking),
                         !.all_num_negative = Padded(tst[w].all_size, w, tst[w].num_negative),
                         !.all_ranking_t = Padded(tst[w].all_size_t, w, tst[w].tail_ranking),
                         !.all_num_negative_t =
                            Padded(tst[w].all_size_t, w, tst[w].num_tail_neg)]]
  /\ pc' = [pc EXCEPT ![w] =
              IF UsesCollectives(env.world_size) THEN "t_reduce_ranking"
              ELSE AfterAggregation(w)]
  /\ UNCHANGED <<env, cfg, tv, params, files, err, hist>>

\* line 230
AllReduceRanking ==
  AllReduce("all_ranking", "t_reduce_ranking",
            [w \in Ranks |-> "t_reduce_num_negative"], 230)

\* line 231
AllReduceNumNegative ==
  AllReduce("all_num_negative", "t_reduce_num_negative",
            [w \in Ranks |-> "t_reduce_ranking_t"], 231)

\* line 232
AllReduceRankingT ==
  AllReduce("all_ranking_t", "t_reduce_ranking_t",
            [w \in Ranks |-> "t_reduce_num_negative_t"], 232)

\* line 233
AllReduceNumNegativeT ==
  AllReduce("all_num_negative_t", "t_reduce_num_negative_t",
            [w \in Ranks |-> AfterAggregation(w)], 233)

\* lines 237-277: one iteration of the metric loop on rank 0; after the last
\* metric the worker goes on to line 278
TestMetric(w) ==
  /\ pc[w] = "t_metrics"
  /\ LET metric == cfg.metric[tst[w].m]
         out == MetricEval(metric, tst[w])
     IN IF out.err # ""
        THEN /\ pc' = [pc EXCEPT ![w] = "raised"]
             /\ err' = [err EXCEPT ![w] = out.err]
             /\ UNCHANGED tst
        ELSE /\ tst' = [tst EXCEPT ![w] =
                          [@ EXCEPT !.score = <<out.score>>,
                                    !.m = @ + 1,
                                    !.metrics =
                                       [x \in DOMAIN tst[w].metrics \cup {metric} |->
                                          IF x = metric THEN out.score
                                          ELSE tst[w].metrics[x]]]]
             /\ pc' = [pc EXCEPT ![w] =
                         IF tst[w].m + 1 <= Len(cfg.metric) THEN "t_metrics" ELSE "t_return"]
             /\ UNCHANGED err
  /\ UNCHANGED <<env, cfg, tv, params, files, hist>>

\* the reciprocal ranks of the worker's own shard only
MrrOfLocal(t) == MeanRecip(t.ranking)

\* an undefined mean
MrrUndefined(t) == NaN

\* line 278, for the test() locals t
MrrOf(t) == MeanRecip(t.all_ranking)

\* line 280: the value test() hands back
ReturnValue(t) == IF t.return_metrics THEN t.metrics ELSE MrrOf(t)

\* lines 278-280, then the caller: line 138 stores the result, main() ends
TestReturn(w) ==
  /\ pc[w] = "t_return"
  /\ tst' = [tst EXCEPT ![w] =
               [@ EXCEPT !.mrr = MrrOf(tst[w]), !.out = <<ReturnValue(tst[w])>>]]
  /\ tv' = [tv EXCEPT ![w].result = IF tst[w].ret = "loop" THEN MrrOf(tst[w]) ELSE @]
  /\ pc' = [pc EXCEPT ![w] = IF tst[w].ret = "loop" THEN "tv_update" ELSE "done"]
  /\ UNCHANGED <<env, cfg, params, files, err, hist>>

\* ------------------------------------------------------------ specification
Next ==
  \/ \E w \in Ranks : TvEnter(w)
  \/ TrainEpoch
  \/ \E w \in Ranks : TrainEpochEmpty(w)
  \/ \E w \in Ranks : SaveBegin(w)
  \/ \E w \in Ranks : SaveEnd(w)
  \/ \E w \in Ranks : SaveSkip(w)
  \/ SyncAfterSave
  \/ \E w \in Ranks : TestRank(w)
  \/ AllReduceSize
  \/ AllReduceSizeT
  \/ \E w \in Ranks : TestPad(w)
  \/ AllReduceRanking
  \/ AllReduceNumNegative
  \/ AllReduceRankingT
  \/ AllReduceNumNegativeT
  \/ \E w \in Ranks : TestMetric(w)
  \/ \E w \in Ranks : TestReturn(w)
  \/ \E w \in Ranks : Update(w)
  \/ \E w \in Ranks : Load(w)
  \/ SyncFinal
  \/ \E w \in Ranks : MainTest(w)

Spec == Init /\ [][Next]_vars

\* --------------------------------------------------- properties of Spec
\* the worker is past the last all_reduce of test() (line 233)
Aggregated(w) == pc[w] \in {"t_metrics", "t_return"}

\* how often triplet t is ranked: over all workers and all shard positions
TimesRanked(t) ==
  SumSeq([r \in 1..env.world_size |->
            Cardinality({j \in 1..NumSamples(env.n, env.world_size) :
                           Shard(env.perm, env.n, env.world_size, r - 1)[j] = t})])

\* C2: the workers' shards are pairwise disjoint and cover every triplet
\* exactly once, so the combined global result has 2*N entries and the
\* tail-only global result N entries, also when N is no multiple of W.
C2_ShardsPartitionTriplets ==
  \A w \in Ranks :
    Aggregated(w) =>
      /\ \A t \in 1..env.n : TimesRanked(t) = 1
      /\ Len(tst[w].all_ranking) = 2 * env.n
      /\ Len(tst[w].all_ranking_t) = env.n

\* C2, where it does hold: N a multiple of W
C2_Witness ==
  /\ env.world_size = 2
  /\ env.n = 2
  /\ \A w \in Ranks : Aggregated(w) /\ Len(tst[w].all_ranking) = 4

\* standing at a synchronize or an all_reduce
CollectiveLabels ==
  {"tv_sync", "tv_final_sync", "t_reduce_size", "t_reduce_size_t",
   "t_reduce_ranking", "t_reduce_num_negative", "t_reduce_ranking_t",
   "t_reduce_num_negative_t"}

\* the collectives a worker has gone through, in order
Collectives(w) == SelectSeq(hist[w], LAMBDA e : e.op \in {"synchronize", "all_reduce"})

IsPrefix(a, b) == Len(a) <= Len(b) /\ SubSeq(b, 1, Len(a)) = a

\* C4: with W > 1 workers sharing one configuration, all workers go through
\* the same collectives in the same order, and no worker stands at a
\* collective that another worker, having ended, never reaches.
C4_NoWorkerLeftAtCollective ==
  \A w, v \in Ranks :
    /\ IsPrefix(Collectives(w), Collectives(v)) \/ IsPrefix(Collectives(v), Collectives(w))
    /\ ~(pc[w] \in CollectiveLabels /\ pc[v] = "raised")

\* the labels inside test()
TestLabels ==
  {"t_rank", "t_reduce_size", "t_reduce_size_t", "t_pad", "t_reduce_ranking",
   "t_reduce_num_negative", "t_reduce_ranking_t", "t_reduce_num_negative_t",
   "t_metrics", "t_return"}

Evaluating(w) == pc[w] \in TestLabels /\ tst[w].ret = "loop"

LoopDone(w) ==
  cfg.num_epoch >= 1 /\ pc[w] \in ({"tv_load", "tv_final_sync", "tv_returned", "done"} \cup
                                   (IF tst[w].ret = "main" THEN TestLabels ELSE {}))

HasOp(w, op) == \E k \in 1..Len(hist[w]) : hist[w][k].op = op

\* C5: no worker is in the evaluation pass of a block, or at or past the final
\* load, before rank 0 has completely written that block's checkpoint file,
\* and no worker ever reads a file that is still being written.
C5_EvaluationAfterCheckpointWritten ==
  \A w \in Ranks :
    /\ Evaluating(w) =>
         tv[w].epoch \in DOMAIN files /\ files[tv[w].epoch].complete
    /\ (LoopDone(w) \/ pc[w] = "tv_update") =>
         \A e \in DOMAIN files : files[e].complete
    /\ ~HasOp(w, "read_partial")

\* a worker other than rank 0 evaluates the second block or a later one
C5_Witness ==
  /\ env.world_size = 2
  /\ Evaluating(1)
  /\ pc[1] = "t_rank"
  /\ tv[1].i > 0
  /\ files[tv[1].epoch].complete

\* the validation results of the blocks so far, in order
Results(w) == SelectSeq(hist[w], LAMBDA e : e.op = "update")

\* the k-th result is the best one, and the earliest of the best
IsEarliestBest(rs, k) ==
  /\ \A j \in 1..Len(rs) : ~FloatGt(rs[j].val, rs[k].val)
  /\ \A j \in 1..(k - 1) : FloatGt(rs[k].val, rs[j].val)

Returned(w) ==
  cfg.num_epoch >= 1 /\ (pc[w] \in {"tv_returned", "done"} \/ tst[w].ret = "main")

\* C6: when train_and_validate returns after num_epoch >= 1 epochs, the model
\* parameters are those of the checkpoint written at the end of the block
\* with the highest validation MRR, the earliest such block on ties.
C6_ReturnsBestCheckpoint ==
  \A w \in Ranks :
    Returned(w) =>
      \E k \in 1..Len(Results(w)) :
        /\ IsEarliestBest(Results(w), k)
        /\ params[w] = files[Results(w)[k].arg].model
        /\ params[w].ver = Results(w)[k].arg

\* returned with the best block neither the first nor the last of at least
\* three blocks
C6_Witness ==
  /\ Returned(0)
  /\ pc[0] = "tv_returned"
  /\ Len(Results(0)) >= 3
  /\ \E k \in 2..(Len(Results(0)) - 1) :
       IsEarliestBest(Results(0), k) /\ params[0].ver = Results(0)[k].arg

\* C7: a block changes best_epoch only if its MRR is strictly greater than
\* the running best_result; a block whose MRR equals the running best leaves
\* best_result and best_epoch unchanged.
C7_StrictImprovementOnly ==
  [][\A w \in Ranks :
       (pc[w] = "tv_update" /\ pc'[w] # "tv_update") =>
         /\ tv'[w].best_epoch # tv[w].best_epoch =>
              FloatGt(tv[w].result, tv[w].best_result)
         /\ ( ~FloatGt(tv[w].result, tv[w].best_result)
              /\ ~FloatGt(tv[w].best_result, tv[w].result) ) =>
              /\ tv'[w].best_epoch = tv[w].best_epoch
              /\ tv'[w].best_result = tv[w].best_result]_vars

\* a block tied with the running best has been processed and the earlier
\* block is still the best
C7_Witness ==
  /\ pc[0] = "tv_train"
  /\ Len(Results(0)) = 2
  /\ ~FloatGt(Results(0)[1].val, Results(0)[2].val)
  /\ ~FloatGt(Results(0)[2].val, Results(0)[1].val)
  /\ tv[0].best_epoch = Results(0)[1].arg

\* the steps of the blocks that train num_epoch epochs, as the claim words
\* them: blocks of ceil(num_epoch/10) epochs, each followed by the checkpoint
\* write (rank 0 only), the evaluation and the best-result update
RECURSIVE BlockSteps(_, _, _, _)
BlockSteps(num_epoch, len, from, saver) ==
  IF from >= num_epoch THEN <<>>
  ELSE LET to == IF from + len < num_epoch THEN from + len ELSE num_epoch IN
       [k \in 1..(to - from) |-> <<"train", from + k - 1>>]
         \o (IF saver THEN <<<<"save", to>>>> ELSE <<>>)
         \o <<<<"eval", to>>, <<"update", to>>>>
         \o BlockSteps(num_epoch, len, to, saver)

ExpectedSteps(num_epoch, saver) ==
  BlockSteps(num_epoch, (num_epoch + 9) \div 10, 0, saver)

Steps(w) ==
  LET sel == SelectSeq(hist[w],
                       LAMBDA e : e.op \in {"train", "save", "update"}
                                  \/ (e.op = "eval" /\ e.arg >= 0))
  IN [k \in 1..Len(sel) |-> <<sel[k].op, sel[k].arg>>]

\* C8: every epoch 0..num_epoch-1 is trained exactly once in ascending
\* order, in blocks of ceil(num_epoch/10) epochs (at most 10, only the last
\* one shorter), and each block is followed, before the next one starts, by
\* checkpoint write, evaluation and best-result update, once each, in order.
C8_BlockStepsInOrder ==
  \A w \in Ranks :
    LET done == Steps(w)
        expected == ExpectedSteps(cfg.num_epoch, w = 0)
    IN /\ IsPrefix(done, expected)
       /\ LoopDone(w) => done = expected
       /\ Len(Results(w)) <= 10

\* a run of 11 epochs has finished its six blocks, the last one of one epoch
C8_Witness ==
  /\ cfg.num_epoch = 11
  /\ LoopDone(0)
  /\ Len(Results(0)) = 6
  /\ Steps(0)[Len(Steps(0)) - 3] = <<"train", 10>>

Saves(w) == SelectSeq(hist[w], LAMBDA e : e.op = "save")

\* C9: only rank 0 writes checkpoint files; the k-th file it writes is named
\* by the end epoch of the k-th block, the names increase strictly (so no
\* file of the run is overwritten), and the last one is model_epoch_<num_epoch>.
C9_OnlyRankZeroWritesOnePerBlock ==
  LET saves == Saves(0) IN
  /\ \A w \in Ranks \ {0} : ~HasOp(w, "save_begin") /\ ~HasOp(w, "save")
  /\ \A k \in 1..Len(saves) :
       /\ saves[k].arg =
            (IF k * ((cfg.num_epoch + 9) \div 10) < cfg.num_epoch
             THEN k * ((cfg.num_epoch + 9) \div 10) ELSE cfg.num_epoch)
       /\ k > 1 => saves[k - 1].arg < saves[k].arg
  /\ DOMAIN files \subseteq {hist[0][k].arg : k \in 1..Len(hist[0])}
  /\ Cardinality(DOMAIN files) \in {Len(saves), Len(saves) + 1}
  /\ LoopDone(0) =>
       /\ saves[Len(saves)].arg = cfg.num_epoch
       /\ Cardinality(DOMAIN files) = Len(saves)

\* two workers have finished a run of 11 epochs: six files, the last one
\* model_epoch_11
C9_Witness ==
  /\ env.world_size = 2
  /\ cfg.num_epoch = 11
  /\ LoopDone(0) /\ LoopDone(1)
  /\ DOMAIN files = {2, 4, 6, 8, 10, 11}
  /\ \A e \in DOMAIN files : files[e].complete /\ files[e].model.ver = e

\* the checkpoints a worker has loaded
Loads(w) == SelectSeq(hist[w], LAMBDA e : e.op = "load")

\* C16: with W > 1 every worker obtains the same MRR from test() as rank 0
\* for every block, so after every block all workers hold the same
\* best_result and best_epoch, and at the end they load the same checkpoint
\* file.
C16_WorkersAgreeOnBest ==
  \A w \in Ranks \ {0} :
    LET rw == Results(w)
        r0 == Results(0)
    IN /\ \A k \in 1..Min(Len(rw), Len(r0)) : rw[k] = r0[k]
       /\ ( pc[w] = "tv_update" /\ pc[0] = "tv_update" /\ tv[w].epoch = tv[0].epoch ) =>
            tv[w].result = tv[0].result
       /\ Len(rw) = Len(r0) =>
            /\ tv[w].best_result = tv[0].best_result
            /\ tv[w].best_epoch = tv[0].best_epoch
       /\ ( HasOp(w, "load") /\ HasOp(0, "load") ) => Loads(w) = Loads(0)
       /\ ( pc[w] = "done" /\ pc[0] = "done" ) => tst[w].mrr = tst[0].mrr

\* two workers whose shards gave different local rankings have loaded the
\* same checkpoint after at least two blocks
C16_Witness ==
  /\ env.world_size = 2
  /\ pc[0] = "tv_returned" /\ pc[1] = "tv_returned"
  /\ tst[0].ranking # tst[1].ranking
  /\ Len(Results(1)) >= 2
  /\ Len(Loads(0)) = 1 /\ Loads(0) = Loads(1)
  /\ tv[0].best_epoch = tv[1].best_epoch

\* at or past the final reload of lines 143-148
AtOrPastReload(w) ==
  cfg.num_epoch >= 1 /\ (pc[w] \in {"tv_load", "tv_final_sync"} \/ Returned(w))

\* C17: when train_and_validate reaches its final reload, best_epoch is the
\* end epoch of a block whose checkpoint was written earlier in the run, never
\* the initial -1; no result the evaluation returns is undefined, also on a
\* graph without triplets.
C17_BestEpochIsWrittenBlock ==
  \A w \in Ranks :
    /\ pc[w] = "tv_update" => tv[w].result # NaN /\ FloatGt(tv[w].result, NegInf)
    /\ err[w] # "FileNotFoundError"
    /\ AtOrPastReload(w) =>
         /\ tv[w].best_epoch # -1
         /\ tv[w].best_epoch \in DOMAIN files
         /\ files[tv[w].best_epoch].complete
         /\ \E k \in 1..Len(Saves(0)) : Saves(0)[k].arg = tv[w].best_epoch
         /\ \E k \in 1..Len(Results(w)) : Results(w)[k].arg = tv[w].best_epoch

\* a worker other than rank 0 stands at the final reload after three blocks
\* or more, the best of them not the first
C17_Witness ==
  /\ env.world_size = 2
  /\ pc[1] = "tv_load"
  /\ Len(Results(1)) >= 3
  /\ tv[1].best_epoch > Results(1)[1].arg
  /\ tv[1].best_epoch \in DOMAIN files

\* what the training loop and the final reload leave in hist
LoopOps == {"train", "save_begin", "save", "synchronize", "update", "load", "read_partial"}

\* C19: with num_epoch = 0 train_and_validate returns at once on every
\* worker: no epoch trained, no checkpoint written or loaded, no evaluation,
\* no collective or barrier, the model parameters unchanged.
C19_ZeroEpochsReturnAtOnce ==
  \A w \in Ranks :
    cfg.num_epoch = 0 =>
      /\ pc[w] \in {"tv_entry", "tv_returned", "done", "raised"} \cup TestLabels
      /\ pc[w] \in TestLabels => tst[w].ret = "main"
      /\ pc[w] = "tv_returned" => hist[w] = <<>>
      /\ \A k \in 1..Len(hist[w]) :
           /\ hist[w][k].op \notin LoopOps
           /\ hist[w][k].op = "eval" => hist[w][k].arg = -1
      /\ files = <<>>
      /\ params[w] = [ver |-> 0, q |-> QualityOf(cfg.seed, 0)]

\* both of two workers have returned from train_and_validate with num_epoch = 0
C19_Witness ==
  /\ cfg.num_epoch = 0
  /\ env.world_size = 2
  /\ pc[0] = "tv_returned" /\ pc[1] = "tv_returned"
  /\ params[1].ver = 0

\* ------------------------------------------- the aggregation on its own
\* Lines 202-233 applied to local vectors of any lengths: every worker stands
\* behind line 201 and line 207 with its local vectors already computed.
AggRankValues == {1, 2}

\* the entries at odd positions: the tail-corruption ranks when every batch
\* holds one triplet
OddEntries(r) == [k \in 1..((Len(r) + 1) \div 2) |-> r[2 * k - 1]]

\* a count of negatives for each rank, rank <= 1 + negatives
NegativesFor(r) == [k \in 1..Len(r) |-> r[k] + k - 1]

AggLocals(r) ==
  [Tst0("main") EXCEPT !.ranking = r,
                       !.num_negative = NegativesFor(r),
                       !.tail_ranking = OddEntries(r),
                       !.num_tail_neg = OddEntries(NegativesFor(r))]

InitAt(label) ==
  /\ pc = [w \in Ranks |-> label]
  /\ tv = [w \in Ranks |-> Tv0]
  /\ params = [w \in Ranks |-> [ver |-> 0, q |-> QualityOf(cfg.seed, 0)]]
  /\ files = <<>>
  /\ err = [w \in Ranks |-> ""]
  /\ hist = [w \in Ranks |-> <<>>]

InitAgg ==
  /\ env \in [world_size : 1..AggMaxW, n : {1}, perm : {<<1>>}]
  /\ cfg = [num_epoch |-> 0, batch_size |-> 1, metric |-> <<>>, seed |-> 0]
  /\ InitAt("t_size")
  /\ \E locals \in [Ranks -> SeqsUpTo(AggRankValues, AggMaxLen)] :
       tst = [w \in Ranks |-> AggLocals(locals[w])]

NextAgg ==
  \/ \E w \in Ranks : TestSize(w)
  \/ AllReduceSize
  \/ AllReduceSizeT
  \/ \E w \in Ranks : TestPad(w)
  \/ AllReduceRanking
  \/ AllReduceNumNegative
  \/ AllReduceRankingT
  \/ AllReduceNumNegativeT

SpecAgg == InitAgg /\ [][NextAgg]_vars

\* the concatenation of the workers' local vectors `field`, rank ascending
Concatenated(field) ==
  Flatten([r \in 1..env.world_size |-> tst[r - 1][field]])

\* C1: after the aggregation every worker's all_ranking is the concatenation
\* of the local ranking vectors in ascending rank, each in its local order,
\* its length is the sum of the local lengths, and a single worker's
\* all_ranking is its local vector unchanged.
C1_AggregationIsConcatenation ==
  \A w \in Ranks :
    Aggregated(w) =>
      /\ tst[w].all_ranking = Concatenated("ranking")
      /\ Len(tst[w].all_ranking) =
           SumSeq([r \in 1..env.world_size |-> Len(tst[r - 1].ranking)])
      /\ (env.world_size = 1 => tst[w].all_ranking = tst[w].ranking)

\* two workers, the first with an empty local vector and the second with two
\* different ranks, both past the last all_reduce
C1_Witness ==
  /\ env.world_size = 2
  /\ tst[0].ranking = <<>>
  /\ tst[1].ranking = <<2, 1>>
  /\ \A w \in Ranks : Aggregated(w)

\* --------------------------------------------- an even split of 100 results
SplitWorkers == {1, 2, 5, 10}

SplitQueries == 10 * 10

\* the fixed result of query k
SyntheticRank(seed, k) == 1 + (((seed + 1) * k) % 7)

AllResults(seed) == [k \in 1..SplitQueries |-> SyntheticRank(seed, k)]

InitSplit ==
  /\ env \in [world_size : SplitWorkers, n : {SplitQueries},
              perm : {Identity(SplitQueries), Reversed(SplitQueries)}]
  /\ cfg \in [num_epoch : {0}, batch_size : {1}, metric : {<<>>}, seed : 0..1]
  /\ InitAt("t_size")
  /\ tst = [w \in Ranks |->
              AggLocals([j \in 1..NumSamples(env.n, env.world_size) |->
                           SyntheticRank(cfg.seed,
                                         Shard(env.perm, env.n, env.world_size, w)[j])])]

SpecSplit == InitSplit /\ [][NextAgg]_vars

\* C3: for the 100 fixed results split evenly among 1, 2, 5 or 10 workers the
\* aggregated result has length 100 and holds the multiset of the 100
\* results, whatever the number of workers.
C3_EvenSplitSameMultiset ==
  \A w \in Ranks :
    Aggregated(w) =>
      /\ Len(tst[w].all_ranking) = SplitQueries
      /\ BagOfSeq(tst[w].all_ranking) = BagOfSeq(AllResults(cfg.seed))

C3_Witness ==
  /\ env.world_size = 10
  /\ env.perm = Reversed(SplitQueries)
  /\ \A w \in Ranks : Aggregated(w) /\ Len(tst[w].ranking) = 10

\* ------------------------------------------------- one call of test()
\* Every worker calls test() once on the untrained model, with return_metrics
\* given by the caller; graphs of up to TestMaxN triplets give shards of
\* several triplets and batches of more than one.
TestMetricLists ==
  {<<M_mrr_tail, M_mr, M_hits1>>, <<M_mr, M_mrr_head>>, <<M_mrr_tailx>>,
   <<M_hits1_1>>, <<M_hits2_1>>, <<M_hits1_3_tail>>}

InitTest ==
  /\ env \in {[world_size |-> W, n |-> Len(p), perm |-> p] :
                W \in 1..MaxW, p \in UNION {Shuffles(k) : k \in 1..TestMaxN}}
  /\ cfg \in [num_epoch : {0}, batch_size : BatchSizes, metric : TestMetricLists,
              seed : 0..MaxSeed]
  /\ InitAt("t_rank")
  /\ \E rm \in BOOLEAN :
       tst = [w \in Ranks |-> [Tst0("call") EXCEPT !.return_metrics = rm]]

NextTest ==
  \/ \E w \in Ranks : TestRank(w)
  \/ AllReduceSize
  \/ AllReduceSizeT
  \/ \E w \in Ranks : TestPad(w)
  \/ AllReduceRanking
  \/ AllReduceNumNegative
  \/ AllReduceRankingT
  \/ AllReduceNumNegativeT
  \/ \E w \in Ranks : TestMetric(w)
  \/ \E w \in Ranks : TestReturn(w)

SpecTest == InitTest /\ [][NextTest]_vars

\* the name carries a suffix after "-" that is not "tail"
HasUnsupportedSuffix(metric) ==
  /\ \E k \in 1..Len(metric) : metric[k] = "-"
  /\ SubSeq(metric, 1 + (CHOOSE k \in 1..Len(metric) :
                           metric[k] = "-" /\ \A j \in 1..(k - 1) : metric[j] # "-"),
            Len(metric)) # Name_tail

UnsupportedMode == "ValueError: Only tail metric is supported in this mode"

\* C10: a requested metric name with a suffix other than "tail" is rejected
\* with the unsupported-mode error and no value is ever stored under it.
C10_UnsupportedSuffixRejected ==
  \A w \in Ranks :
    /\ \A metric \in DOMAIN tst[w].metrics : ~HasUnsupportedSuffix(metric)
    /\ ( pc[w] = "raised" /\ tst[w].m <= Len(cfg.metric)
         /\ HasUnsupportedSuffix(cfg.metric[tst[w].m]) ) => err[w] = UnsupportedMode

\* C11: when the metric list holds a name with an unsupported suffix, the run
\* fails before any computation: no worker has scored a batch, computed a
\* rank or issued a collective.
C11_UnsupportedSuffixFailsFast ==
  (\E k \in 1..Len(cfg.metric) : HasUnsupportedSuffix(cfg.metric[k])) =>
    \A w \in Ranks :
      /\ ~HasOp(w, "eval")
      /\ ~HasOp(w, "all_reduce")
      /\ tst[w].ranking = <<>>

\* the unsupported-mode error is raised on rank 0 after both workers went
\* through the six all_reduce calls
C11_Witness ==
  /\ env.world_size = 2
  /\ err[0] = UnsupportedMode
  /\ Len(Collectives(0)) = 6 /\ Len(Collectives(1)) = 6

HasDash(metric) == \E k \in 1..Len(metric) : metric[k] = "-"

\* the name ends in "-tail"
EndsWithTail(metric) ==
  /\ Len(metric) > Len(Name_dash_tail)
  /\ SubSeq(metric, Len(metric) - Len(Name_dash_tail) + 1, Len(metric)) = Name_dash_tail

\* the name before the first "-"
BaseName(metric) ==
  IF HasDash(metric)
  THEN SubSeq(metric, 1, (CHOOSE k \in 1..Len(metric) :
                            metric[k] = "-" /\ \A j \in 1..(k - 1) : metric[j] # "-") - 1)
  ELSE metric

\* the value of metric `name` on a ranking vector, computed afresh
FreshValue(name, r, negs) == ScoreOf(name, r, negs, <<>>).score

\* C12: the value stored under '<name>-tail' is that of <name> on the
\* tail-only aggregates, the value stored under a name without suffix is that
\* of the name on the combined aggregates, and the value stored under any
\* name is the value of its metric in this pass, never one carried over from
\* a metric processed before.
C12_StoredValueIsOwnMetric ==
  \A w \in Ranks :
    \A x \in DOMAIN tst[w].metrics :
      IF EndsWithTail(x)
      THEN tst[w].metrics[x] =
             FreshValue(BaseName(x), tst[w].all_ranking_t, tst[w].all_num_negative_t)
      ELSE IF ~HasDash(x)
      THEN tst[w].metrics[x] =
             FreshValue(x, tst[w].all_ranking, tst[w].all_num_negative)
      ELSE tst[w].metrics[x] \in
             {FreshValue(BaseName(x), tst[w].all_ranking, tst[w].all_num_negative),
              FreshValue(BaseName(x), tst[w].all_ranking_t, tst[w].all_num_negative_t)}

\* rank 0 has stored 'mrr-tail', 'mr' and 'hits@1', the tail-only MRR differing
\* from the combined one
C12_Witness ==
  /\ DOMAIN tst[0].metrics = {M_mrr_tail, M_mr, M_hits1}
  /\ tst[0].metrics[M_mrr_tail] = MeanRecip(tst[0].all_ranking_t)
  /\ tst[0].metrics[M_mr] = MeanRank(tst[0].all_ranking)
  /\ MeanRecip(tst[0].all_ranking_t) # MeanRecip(tst[0].all_ranking)

\* the source lines of the all_reduce calls a worker went through, in order
AllReduceLines(w) ==
  LET sel == SelectSeq(hist[w], LAMBDA e : e.op = "all_reduce")
  IN [k \in 1..Len(sel) |-> sel[k].arg]

\* C13: in test() only rank 0 computes and stores metric values; every other
\* worker still goes through all six all_reduce calls and, with
\* return_metrics true, returns an empty mapping.
C13_OnlyRankZeroComputesMetrics ==
  \A w \in Ranks \ {0} :
    /\ pc[w] # "t_metrics"
    /\ DOMAIN tst[w].metrics = {}
    /\ tst[w].score = <<>>
    /\ pc[w] = "done" =>
         /\ AllReduceLines(w) = <<211, 212, 230, 231, 232, 233>>
         /\ tst[w].return_metrics => DOMAIN tst[w].out[1] = {}

\* rank 1 has returned an empty mapping while rank 0 has stored three values
C13_Witness ==
  /\ env.world_size = 2
  /\ tst[1].return_metrics
  /\ pc[1] = "done"
  /\ DOMAIN tst[1].out[1] = {}
  /\ Cardinality(DOMAIN tst[0].metrics) = 3

\* the name is 'hits@K_S', with or without a suffix
IsSubsampleHits(metric) ==
  /\ StartsWith(BaseName(metric), Name_hits)
  /\ LET values == Split(SubSeq(BaseName(metric), 6, Len(BaseName(metric))), "_")
     IN Len(values) = 2 /\ IsInt(values[1]) /\ IsInt(values[2])

ThresholdOf(metric) ==
  ParseInt(Split(SubSeq(BaseName(metric), 6, Len(BaseName(metric))), "_")[1])

NumSampleOf(metric) ==
  ParseInt(Split(SubSeq(BaseName(metric), 6, Len(BaseName(metric))), "_")[2])

\* C14: for a metric name 'hits@K_S' with S - 1 < K, K = S included, test()
\* raises and produces no score.
C14_DegenerateSubsampleRaises ==
  \A w \in Ranks :
    /\ \A x \in DOMAIN tst[w].metrics :
         IsSubsampleHits(x) => NumSampleOf(x) - 1 >= ThresholdOf(x)
    /\ ( \E k \in 1..Len(cfg.metric) :
           IsSubsampleHits(cfg.metric[k])
             /\ NumSampleOf(cfg.metric[k]) - 1 < ThresholdOf(cfg.metric[k]) ) =>
         pc[w] # "done"

\* where the code does raise: 'hits@2_1', S < K
C14_Witness ==
  /\ cfg.metric = <<M_hits2_1>>
  /\ pc[0] = "raised"
  /\ err[0] = "ValueError: factorial() not defined for negative values"

\* C15: when S - 1 equals num_negatives for every query, the value stored
\* for 'hits@K_S' is the exact hits@K (the fraction of queries with
\* rank <= K), for every K with 1 <= K <= S - 1.
C15_FullUniverseIsExactHits ==
  \A w \in Ranks :
    \A x \in DOMAIN tst[w].metrics :
      LET r == IF EndsWithTail(x) THEN tst[w].all_ranking_t ELSE tst[w].all_ranking
          negs == IF EndsWithTail(x) THEN tst[w].all_num_negative_t
                  ELSE tst[w].all_num_negative
      IN ( /\ IsSubsampleHits(x)
           /\ 1 <= ThresholdOf(x) /\ ThresholdOf(x) <= NumSampleOf(x) - 1
           /\ \A i \in 1..Len(negs) : negs[i] = NumSampleOf(x) - 1 ) =>
         tst[w].metrics[x] = HitsAt(r, ThresholdOf(x))

\* where the two agree: every query ranked first among its S - 1 negatives
C15_Witness ==
  /\ M_hits1_3_tail \in DOMAIN tst[0].metrics
  /\ \A i \in 1..Len(tst[0].all_num_negative_t) : tst[0].all_num_negative_t[i] = 2
  /\ \A i \in 1..Len(tst[0].all_ranking_t) : tst[0].all_ranking_t[i] = 1
  /\ tst[0].metrics[M_hits1_3_tail] = Frac(1, 1)

\* the queries worker w ranks, in the order lines 194-198 append them: batch
\* by batch, the tail corruptions of the batch and then its head corruptions
Queries(w) ==
  LET bs == Batches(Shard(env.perm, env.n, env.world_size, w), cfg.batch_size)
  IN Flatten([b \in 1..Len(bs) |->
                [k \in 1..Len(bs[b]) |-> <<bs[b][k], "t">>]
                  \o [k \in 1..Len(bs[b]) |-> <<bs[b][k], "h">>]])

\* all workers' queries, rank ascending
AllQueries == Flatten([r \in 1..env.world_size |-> Queries(r - 1)])

\* C18: after the aggregation entry i of all_ranking and entry i of
\* all_num_negative belong to the same query of the same worker, likewise for
\* the tail-only pair, and the tail-only vectors hold exactly the
\* tail-corruption entries of the combined ones in worker-then-local order.
C18_AggregatesStayAligned ==
  LET aq == AllQueries
      tq == SelectSeq(aq, LAMBDA e : e[2] = "t")
  IN \A w \in Ranks :
       Aggregated(w) =>
         /\ Len(tst[w].all_ranking) = Len(aq)
         /\ Len(tst[w].all_num_negative) = Len(aq)
         /\ Len(tst[w].all_ranking_t) = Len(tq)
         /\ Len(tst[w].all_num_negative_t) = Len(tq)
         /\ \A i \in 1..Len(aq) :
              /\ tst[w].all_ranking[i] = RankOf(params[w].q, aq[i][1], aq[i][2])
              /\ tst[w].all_num_negative[i] = NumNegOf(aq[i][1], aq[i][2])
         /\ \A i \in 1..Len(tq) :
              /\ tst[w].all_ranking_t[i] = RankOf(params[w].q, tq[i][1], "t")
              /\ tst[w].all_num_negative_t[i] = NumNegOf(tq[i][1], "t")

\* two workers with shards of two triplets each, ranked in one batch of two
C18_Witness ==
  /\ env.world_size = 2
  /\ env.n = 4
  /\ cfg.batch_size = 2
  /\ \A w \in Ranks : Aggregated(w) /\ Len(tst[w].all_ranking) = 8
  /\ Len(tst[1].all_ranking_t) = 4

====
